---- MODULE Spec2Model ----
(***************************************************************************)
(* Command-line parsing of xpano: src/xpano/cli/args.cc.                   *)
(*                                                                         *)
(* A string is a sequence of one-character strings, a path is a string.    *)
(* An optional<T> is <<>> (no value) or <<v>> (the value v).               *)
(***************************************************************************)
EXTENDS Integers, Sequences, FiniteSets, TLC

VARIABLES argv, i, args, pc, log, ret

vars == <<argv, i, args, pc, log, ret>>

(***************************************************************************)
(* Bounds of the model.                                                    *)
(***************************************************************************)
MaxArgs == 3
MaxNumArgs == 2
MaxFlagArgs == 2

(***************************************************************************)
(* Characters and strings.                                                 *)
(***************************************************************************)
\* The characters the model's strings are written in, in ASCII order.
Alphabet ==
  <<" ", "+", "-", ".", "/", "0", "1", "2", "3", "4", "5", "6", "7", "8", "9",
    "=", "a", "b", "c", "d", "e", "f", "g", "h", "i", "j", "k", "l", "m", "n",
    "o", "p", "q", "r", "s", "t", "u", "v", "w", "x", "y", "z">>

\* The rank of a character: char comparison compares ranks.
CharCode(c) == CHOOSE k \in 1..Len(Alphabet) : Alphabet[k] = c

Digits == {"0", "1", "2", "3", "4", "5", "6", "7", "8", "9"}

DigitVal(c) == CharCode(c) - CharCode("0")

\* std::string::starts_with
StartsWith(str, prefix) ==
  /\ Len(str) >= Len(prefix)
  /\ SubSeq(str, 1, Len(prefix)) = prefix

\* std::string::substr(pos) with pos counted from 0
Substr(str, pos) == SubSeq(str, pos + 1, Len(str))

\* std::string::compare < 0
RECURSIVE StrLess(_, _)
StrLess(a, b) ==
  IF b = <<>> THEN FALSE
  ELSE IF a = <<>> THEN TRUE
  ELSE IF CharCode(Head(a)) < CharCode(Head(b)) THEN TRUE
  ELSE IF CharCode(Head(a)) > CharCode(Head(b)) THEN FALSE
  ELSE StrLess(Tail(a), Tail(b))

None == <<>>
Some(v) == <<v>>
HasValue(o) == o # <<>>
Value(o) == o[1]

(***************************************************************************)
(* The flag literals, args.cc lines 26-39.                                 *)
(***************************************************************************)
kGuiFlag == <<"-", "-", "g", "u", "i">>
kOutputFlag == <<"-", "-", "o", "u", "t", "p", "u", "t", "=">>
kHelpFlag == <<"-", "-", "h", "e", "l", "p">>
kVersionFlag == <<"-", "-", "v", "e", "r", "s", "i", "o", "n">>
kProjectionFlag == <<"-", "-", "p", "r", "o", "j", "e", "c", "t", "i", "o", "n", "=">>
kMatchingTypeFlag == <<"-", "-", "m", "a", "t", "c", "h", "i", "n", "g", "-", "t", "y", "p", "e", "=">>
kMatchThresholdFlag == <<"-", "-", "m", "a", "t", "c", "h", "-", "t", "h", "r", "e", "s", "h", "o", "l", "d", "=">>
kMinShiftFlag == <<"-", "-", "m", "i", "n", "-", "s", "h", "i", "f", "t", "=">>
kJpegQualityFlag == <<"-", "-", "j", "p", "e", "g", "-", "q", "u", "a", "l", "i", "t", "y", "=">>
kPngCompressionFlag == <<"-", "-", "p", "n", "g", "-", "c", "o", "m", "p", "r", "e", "s", "s", "i", "o", "n", "=">>
kCopyMetadataFlag == <<"-", "-", "c", "o", "p", "y", "-", "m", "e", "t", "a", "d", "a", "t", "a">>
kNoCopyMetadataFlag == <<"-", "-", "n", "o", "-", "c", "o", "p", "y", "-", "m", "e", "t", "a", "d", "a", "t", "a">>
kWaveCorrectionFlag == <<"-", "-", "w", "a", "v", "e", "-", "c", "o", "r", "r", "e", "c", "t", "i", "o", "n", "=">>
kMaxPanoMpxFlag == <<"-", "-", "m", "a", "x", "-", "p", "a", "n", "o", "-", "m", "p", "x", "=">>

(***************************************************************************)
(* The bound constants the validator reads.  Those of xpano/constants.h    *)
(* carry the values of that header; kMinShiftInPano and kMaxShiftInPano    *)
(* are floats (0.0 and 1.0) and follow FloatLess.  The bounds of           *)
(* --max-pano-mpx are the literals of args.cc line 204.                    *)
(***************************************************************************)
kMinMatchThreshold == 4
kMaxMatchThreshold == 250
kMaxJpegQuality == 100
kMaxPngCompression == 9
kMinPanoMpxArg == 1
kMaxPanoMpxArg == 5000

\* The range of int.
IntMax == 2147483647
IntMin == (-IntMax) - 1

(***************************************************************************)
(* ParseInt: std::from_chars in base 10 over the whole string.  An         *)
(* optional minus sign, then at least one digit, nothing else; a value     *)
(* that does not fit int is result_out_of_range.                           *)
(***************************************************************************)
\* The digits of str appended to acc, <<>> on overflow of int.
RECURSIVE AccDigits(_, _, _)
AccDigits(str, acc, neg) ==
  IF str = <<>> THEN Some(acc)
  ELSE LET d == DigitVal(Head(str)) IN
       IF neg
       THEN IF acc < (IntMin + d + 9) \div 10 THEN None
            ELSE AccDigits(Tail(str), acc * 10 - d, neg)
       ELSE IF acc > (IntMax - d) \div 10 THEN None
            ELSE AccDigits(Tail(str), acc * 10 + d, neg)

AllDigits(str) == \A k \in 1..Len(str) : str[k] \in Digits

ParseInt(str) ==
  LET neg == str # <<>> /\ Head(str) = "-"
      body == IF neg THEN Tail(str) ELSE str
  IN IF body # <<>> /\ AllDigits(body) THEN AccDigits(body, 0, neg) ELSE None

(***************************************************************************)
(* ParseFloat: std::stof over the whole string.  A float is a record       *)
(* [cls, num, den]: cls "fin" is the rational num/den (den a power of      *)
(* ten), cls "inf" is the infinity of the sign of num, cls "nan" is NaN.   *)
(* stof skips leading blanks, takes an optional sign, then "nan", "inf",   *)
(* "infinity" or a decimal literal with an optional fraction; any other    *)
(* string, or one with characters left over, gives no value.  Literals     *)
(* with an exponent or in hexadecimal are outside the strings modelled.    *)
(***************************************************************************)
Fin(n, d) == [cls |-> "fin", num |-> n, den |-> d]
Inf(s) == [cls |-> "inf", num |-> s, den |-> 1]
NaN == [cls |-> "nan", num |-> 0, den |-> 1]

RECURSIVE SkipBlanks(_)
SkipBlanks(str) ==
  IF str # <<>> /\ Head(str) = " " THEN SkipBlanks(Tail(str)) ELSE str

RECURSIVE Pow10(_)
Pow10(n) == IF n = 0 THEN 1 ELSE 10 * Pow10(n - 1)

RECURSIVE DigitsValue(_)
DigitsValue(str) ==
  IF str = <<>> THEN 0
  ELSE DigitsValue(SubSeq(str, 1, Len(str) - 1)) * 10 + DigitVal(str[Len(str)])

\* The position of the first "." of str, 0 when it has none.
DotPos(str) ==
  IF \E k \in 1..Len(str) : str[k] = "."
  THEN CHOOSE k \in 1..Len(str) : str[k] = "." /\ \A j \in 1..(k - 1) : str[j] # "."
  ELSE 0

ParseFloat(str) ==
  LET s1 == SkipBlanks(str)
      signed == s1 # <<>> /\ Head(s1) \in {"+", "-"}
      sgn == IF signed /\ Head(s1) = "-" THEN -1 ELSE 1
      body == IF signed THEN Tail(s1) ELSE s1
      dot == DotPos(body)
      ipart == IF dot = 0 THEN body ELSE SubSeq(body, 1, dot - 1)
      fpart == IF dot = 0 THEN <<>> ELSE SubSeq(body, dot + 1, Len(body))
  IN IF body = <<"n", "a", "n">> THEN Some(NaN)
     ELSE IF body \in {<<"i", "n", "f">>, <<"i", "n", "f", "i", "n", "i", "t", "y">>}
       THEN Some(Inf(sgn))
     ELSE IF /\ AllDigits(ipart)
             /\ AllDigits(fpart)
             /\ Len(ipart) + Len(fpart) > 0
       THEN Some(Fin(sgn * (DigitsValue(ipart) * Pow10(Len(fpart)) + DigitsValue(fpart)),
                     Pow10(Len(fpart))))
     ELSE None

\* The comparison a < b of two floats: false when either is NaN.
FloatLess(a, b) ==
  IF a.cls = "nan" \/ b.cls = "nan" THEN FALSE
  ELSE IF a.cls = "inf" THEN a.num < 0 /\ ~(b.cls = "inf" /\ b.num < 0)
  ELSE IF b.cls = "inf" THEN b.num > 0
  ELSE a.num * b.den < b.num * a.den

kMinShiftInPano == Fin(0, 1)
kMaxShiftInPano == Fin(1, 1)

(***************************************************************************)
(* Enum resolvers, args.cc lines 62-93.                                    *)
(***************************************************************************)
ParseProjectionType(str) ==
  IF str = <<"p", "e", "r", "s", "p", "e", "c", "t", "i", "v", "e">> THEN Some("kPerspective")
  ELSE IF str = <<"c", "y", "l", "i", "n", "d", "r", "i", "c", "a", "l">> THEN Some("kCylindrical")
  ELSE IF str = <<"s", "p", "h", "e", "r", "i", "c", "a", "l">> THEN Some("kSpherical")
  ELSE IF str = <<"f", "i", "s", "h", "e", "y", "e">> THEN Some("kFisheye")
  ELSE IF str = <<"s", "t", "e", "r", "e", "o", "g", "r", "a", "p", "h", "i", "c">> THEN Some("kStereographic")
  ELSE IF str = <<"r", "e", "c", "t", "i", "l", "i", "n", "e", "a", "r">> THEN Some("kCompressedRectilinear")
  ELSE IF str = <<"p", "a", "n", "i", "n", "i">> THEN Some("kPanini")
  ELSE IF str = <<"m", "e", "r", "c", "a", "t", "o", "r">> THEN Some("kMercator")
  ELSE IF str = <<"t", "r", "a", "n", "s", "v", "e", "r", "s", "e", "-", "m", "e", "r", "c", "a", "t", "o", "r">>
    THEN Some("kTransverseMercator")
  ELSE None

ParseWaveCorrectionType(str) ==
  IF str = <<"o", "f", "f">> THEN Some("kOff")
  ELSE IF str = <<"a", "u", "t", "o">> THEN Some("kAuto")
  ELSE IF str = <<"h", "o", "r", "i", "z", "o", "n", "t", "a", "l">> THEN Some("kHorizontal")
  ELSE IF str = <<"v", "e", "r", "t", "i", "c", "a", "l">> THEN Some("kVertical")
  ELSE None

ParseMatchingType(str) ==
  IF str = <<"a", "u", "t", "o">> THEN Some("kAuto")
  ELSE IF str = <<"s", "i", "n", "g", "l", "e">> THEN Some("kSinglePano")
  ELSE IF str = <<"n", "o", "n", "e">> THEN Some("kNone")
  ELSE None

(***************************************************************************)
(* The configuration record, args.h lines 15-38.                           *)
(***************************************************************************)
Args ==
  [run_gui |-> FALSE, print_help |-> FALSE, print_version |-> FALSE,
   input_paths |-> <<>>, output_path |-> None,
   projection |-> None,
   matching_type |-> None, match_threshold |-> None, min_shift |-> None,
   jpeg_quality |-> None, png_compression |-> None, copy_metadata |-> None,
   wave_correction |-> None, max_pano_mpx |-> None]

\* A line of the log: spdlog::info, spdlog::warn, spdlog::error.
LogLine(level, msg) == [level |-> level, msg |-> msg]

(***************************************************************************)
(* ParseArg, args.cc lines 95-139: the record after one token, and the     *)
(* lines the token logs.                                                   *)
(***************************************************************************)
\* An assignment that keeps the old value when the parser gives none.
AssignIfParsed(result, field, value) ==
  IF HasValue(value) THEN [result EXCEPT ![field] = value] ELSE result

\* result->field = value, the assignment of a flag's branch.
Assign(result, field, value) == [result EXCEPT ![field] = value]

\* The branches of ParseArg: the record after the token.
ParseArgDispatch(result, arg) ==
  IF arg = kGuiFlag THEN Assign(result, "run_gui", TRUE)
  ELSE IF arg = kHelpFlag THEN Assign(result, "print_help", TRUE)
  ELSE IF arg = kVersionFlag THEN Assign(result, "print_version", TRUE)
  ELSE IF StartsWith(arg, kOutputFlag)
    THEN Assign(result, "output_path", Some(Substr(arg, Len(kOutputFlag))))
  ELSE IF StartsWith(arg, kProjectionFlag)
    THEN Assign(result, "projection", ParseProjectionType(Substr(arg, Len(kProjectionFlag))))
  ELSE IF StartsWith(arg, kMatchingTypeFlag)
    THEN Assign(result, "matching_type", ParseMatchingType(Substr(arg, Len(kMatchingTypeFlag))))
  ELSE IF StartsWith(arg, kMatchThresholdFlag)
    THEN Assign(result, "match_threshold", ParseInt(Substr(arg, Len(kMatchThresholdFlag))))
  ELSE IF StartsWith(arg, kMinShiftFlag)
    THEN Assign(result, "min_shift", ParseFloat(Substr(arg, Len(kMinShiftFlag))))
  ELSE IF StartsWith(arg, kJpegQualityFlag)
    THEN Assign(result, "jpeg_quality", ParseInt(Substr(arg, Len(kJpegQualityFlag))))
  ELSE IF StartsWith(arg, kPngCompressionFlag)
    THEN Assign(result, "png_compression", ParseInt(Substr(arg, Len(kPngCompressionFlag))))
  ELSE IF arg = kCopyMetadataFlag THEN Assign(result, "copy_metadata", Some(TRUE))
  ELSE IF arg = kNoCopyMetadataFlag THEN Assign(result, "copy_metadata", Some(FALSE))
  ELSE IF StartsWith(arg, kWaveCorrectionFlag)
    THEN Assign(result, "wave_correction", ParseWaveCorrectionType(Substr(arg, Len(kWaveCorrectionFlag))))
  ELSE IF StartsWith(arg, kMaxPanoMpxFlag)
    THEN Assign(result, "max_pano_mpx", ParseInt(Substr(arg, Len(kMaxPanoMpxFlag))))
  ELSE [result EXCEPT !.input_paths = Append(@, arg)]

\* ParseArg: the record after the token and the lines the token logs
\* (the warning of lines 111-113).
ParseArg(result, arg) ==
  LET r == ParseArgDispatch(result, arg) IN
  [args |-> r,
   log |-> IF StartsWith(arg, kMatchingTypeFlag) /\ ~HasValue(r.matching_type)
           THEN <<LogLine("warn", "Invalid --matching-type")>>
           ELSE <<>>]

(***************************************************************************)
(* Paths: std::filesystem::path over relative paths with single            *)
(* separators.                                                             *)
(***************************************************************************)
\* The position of the last character c of str, 0 when it has none.
LastPos(str, c) ==
  IF \E k \in 1..Len(str) : str[k] = c
  THEN CHOOSE k \in 1..Len(str) : str[k] = c /\ \A j \in (k + 1)..Len(str) : str[j] # c
  ELSE 0

\* path::filename
Filename(path) == Substr(path, LastPos(path, "/"))

\* path::extension: from the last dot of the filename, which is not its
\* first character; nothing for "." and "..".
Extension(path) ==
  LET name == Filename(path)
      dot == LastPos(name, ".")
  IN IF name \in {<<".">>, <<".", ".">>} \/ dot <= 1 THEN <<>>
     ELSE Substr(name, dot - 1)

\* The elements of a path: the strings between its separators.
RECURSIVE Components(_)
Components(path) ==
  IF \E k \in 1..Len(path) : path[k] = "/"
  THEN LET k == CHOOSE k \in 1..Len(path) : path[k] = "/" /\ \A j \in 1..(k - 1) : path[j] # "/"
       IN <<SubSeq(path, 1, k - 1)>> \o Components(Substr(path, k))
  ELSE <<path>>

RECURSIVE ComponentsLess(_, _)
ComponentsLess(a, b) ==
  IF b = <<>> THEN FALSE
  ELSE IF a = <<>> THEN TRUE
  ELSE IF StrLess(Head(a), Head(b)) THEN TRUE
  ELSE IF StrLess(Head(b), Head(a)) THEN FALSE
  ELSE ComponentsLess(Tail(a), Tail(b))

\* path::operator<: element by element.
PathLess(a, b) == ComponentsLess(Components(a), Components(b))

\* A set-like insert: a path already in the sequence is not put in again.
RECURSIVE SortedInsertUnique(_, _)
SortedInsertUnique(sorted, p) ==
  IF sorted = <<>> THEN <<p>>
  ELSE IF p = Head(sorted) THEN sorted
  ELSE IF PathLess(p, Head(sorted)) THEN <<p>> \o sorted
  ELSE <<Head(sorted)>> \o SortedInsertUnique(Tail(sorted), p)

\* p put into the sorted sequence before the first element greater than it.
RECURSIVE SortedInsert(_, _)
SortedInsert(sorted, p) ==
  IF sorted = <<>> THEN <<p>>
  ELSE IF PathLess(p, Head(sorted)) THEN <<p>> \o sorted
  ELSE <<Head(sorted)>> \o SortedInsert(Tail(sorted), p)

\* The sort left out.
SortPathsNone(paths) == paths

\* std::sort(begin, end) of paths, args.cc line 250.
RECURSIVE SortPaths(_)
SortPaths(paths) ==
  IF paths = <<>> THEN <<>>
  ELSE SortedInsert(SortPaths(SubSeq(paths, 1, Len(paths) - 1)), paths[Len(paths)])

(***************************************************************************)
(* The path utilities of xpano/utils/path.h.                               *)
(***************************************************************************)
kSupportedExtensions == {<<"j", "p", "g">>, <<"p", "n", "g">>}

IsExtensionSupported(path) ==
  LET ext == Extension(path) IN
  ext # <<>> /\ Substr(ext, 1) \in kSupportedExtensions

KeepSupported(paths) == SelectSeq(paths, IsExtensionSupported)

(***************************************************************************)
(* The file system the program runs on.                                    *)
(***************************************************************************)
PathPhotos == <<"p", "h", "o", "t", "o", "s">>
PathRaw == <<"p", "h", "o", "t", "o", "s", "/", "r", "a", "w">>
PathEmpty == <<"e", "m", "p", "t", "y">>
PathLocked == <<"l", "o", "c", "k", "e", "d">>

\* The directories; every other path is not a directory.
Directories == {PathPhotos, PathRaw, PathEmpty, PathLocked}

\* The directories whose enumeration fails with a filesystem_error.
Unreadable == {PathLocked}

File(name) == [name |-> name, kind |-> "file"]
Dir(name) == [name |-> name, kind |-> "dir"]

\* The immediate children of a directory.
DirEntries(path) ==
  IF path = PathPhotos
    THEN {File(<<"a", ".", "j", "p", "g">>), File(<<"b", ".", "p", "n", "g">>),
          File(<<"n", "o", "t", "e", "s", ".", "t", "x", "t">>), Dir(<<"r", "a", "w">>)}
  ELSE IF path = PathRaw THEN {File(<<"c", ".", "j", "p", "g">>)}
  ELSE {}

\* std::filesystem::is_directory
IsDirectory(path) == path \in Directories

\* The orders a directory_iterator may enumerate a set of entries in.
Enumerations(entries) ==
  {e \in [1..Cardinality(entries) -> entries] :
     \A j, k \in 1..Cardinality(entries) : e[j] = e[k] => j = k}

\* One enumeration order for every directory of dirs.
RECURSIVE ListingsOver(_)
ListingsOver(dirs) ==
  IF dirs = {} THEN {[d \in {} |-> <<>>]}
  ELSE LET d0 == CHOOSE d \in dirs : TRUE IN
       {[d \in dirs |-> IF d = d0 THEN e ELSE l[d]] :
          e \in Enumerations(DirEntries(d0)), l \in ListingsOver(dirs \ {d0})}

Listings == ListingsOver(Directories)

\* path / name
PathJoin(path, name) == path \o <<"/">> \o name

(***************************************************************************)
(* ExpandDirectories, args.cc lines 214-230.  listing[d] is the order the  *)
(* directory_iterator of d enumerates in.  The result: whether a           *)
(* filesystem_error was thrown, the paths, and the lines logged.           *)
(***************************************************************************)
\* The inner loop without the is_regular_file test.
RECURSIVE RegularFilesAll(_, _)
RegularFilesAll(path, entries) ==
  IF entries = <<>> THEN <<>>
  ELSE <<PathJoin(path, Head(entries).name)>> \o RegularFilesAll(path, Tail(entries))

\* The inner loop, lines 220-224: the regular files among the entries.
RECURSIVE RegularFiles(_, _)
RegularFiles(path, entries) ==
  IF entries = <<>> THEN <<>>
  ELSE (IF Head(entries).kind = "file" THEN <<PathJoin(path, Head(entries).name)>> ELSE <<>>)
       \o RegularFiles(path, Tail(entries))

RECURSIVE ExpandDirectories(_, _)
ExpandDirectories(paths, listing) ==
  IF paths = <<>> THEN [threw |-> FALSE, paths |-> <<>>, log |-> <<>>]
  ELSE LET path == Head(paths)
           info == <<LogLine("info", "Expanding directory")>>
       IN IF IsDirectory(path) /\ path \in Unreadable
            THEN [threw |-> TRUE, paths |-> <<>>, log |-> info]
          ELSE LET rest == ExpandDirectories(Tail(paths), listing) IN
               IF IsDirectory(path)
               THEN [threw |-> rest.threw,
                     paths |-> RegularFiles(path, listing[path]) \o rest.paths,
                     log |-> info \o rest.log]
               ELSE [rest EXCEPT !.paths = <<path>> \o rest.paths]

(***************************************************************************)
(* ValidateArgs, args.cc lines 151-210: the diagnostic of the first rule   *)
(* that fails, "" when none does.                                          *)
(***************************************************************************)
RuleOutputWithoutInputs(a) == HasValue(a.output_path) /\ a.input_paths = <<>>

RuleOutputExtension(a) ==
  HasValue(a.output_path) /\ ~IsExtensionSupported(Value(a.output_path))

\* The validator without the rule on --gui with --output.
RuleOutputWithGuiNever(a) == FALSE

RuleOutputWithGui(a) == HasValue(a.output_path) /\ a.run_gui

RuleMatchThresholdZero(a) ==
  HasValue(a.match_threshold) /\ Value(a.match_threshold) = 0

RuleMatchThresholdRange(a) ==
  /\ HasValue(a.match_threshold)
  /\ \/ Value(a.match_threshold) < kMinMatchThreshold
     \/ Value(a.match_threshold) > kMaxMatchThreshold

RuleMinShiftRange(a) ==
  /\ HasValue(a.min_shift)
  /\ \/ FloatLess(Value(a.min_shift), kMinShiftInPano)
     \/ FloatLess(kMaxShiftInPano, Value(a.min_shift))

RuleJpegQualityRange(a) ==
  /\ HasValue(a.jpeg_quality)
  /\ \/ Value(a.jpeg_quality) < 0
     \/ Value(a.jpeg_quality) > kMaxJpegQuality

RulePngCompressionRange(a) ==
  /\ HasValue(a.png_compression)
  /\ \/ Value(a.png_compression) < 0
     \/ Value(a.png_compression) > kMaxPngCompression

RuleMaxPanoMpxRange(a) ==
  /\ HasValue(a.max_pano_mpx)
  /\ \/ Value(a.max_pano_mpx) < kMinPanoMpxArg
     \/ Value(a.max_pano_mpx) > kMaxPanoMpxArg

ValidateArgs(a) ==
  IF RuleOutputWithoutInputs(a) THEN "No supported images provided"
  ELSE IF RuleOutputExtension(a) THEN "Unsupported output file extension"
  ELSE IF RuleOutputWithGui(a)
    THEN "Specifying --gui and --output together is not yet supported."
  ELSE IF RuleMatchThresholdZero(a) THEN "Invalid value for --match-threshold"
  ELSE IF RuleMatchThresholdRange(a) THEN "--match-threshold must be between"
  ELSE IF RuleMinShiftRange(a) THEN "--min-shift must be between"
  ELSE IF RuleJpegQualityRange(a) THEN "--jpeg-quality must be between"
  ELSE IF RulePngCompressionRange(a) THEN "--png-compression must be between"
  ELSE IF RuleMaxPanoMpxRange(a) THEN "--max-pano-mpx must be between 1 and 5000"
  ELSE ""

(***************************************************************************)
(* ParseArgs, args.cc lines 232-257, step by step.                         *)
(*   argv  the tokens after the program name                               *)
(*   i     the index of the next token of the loop of ParseArgsRaw         *)
(*   args  the record being assembled                                      *)
(*   pc    the position in ParseArgs                                       *)
(*   log   the lines logged so far                                         *)
(*   ret   "pending", or how ParseArgs ended: "record" (args returned),    *)
(*         "nullopt" (the empty optional returned) or "exception" (an      *)
(*         exception left ParseArgs)                                       *)
(***************************************************************************)
Start(tokens) ==
  /\ argv = tokens
  /\ i = 1
  /\ args = Args
  /\ pc = "raw"
  /\ log = <<>>
  /\ ret = "pending"

\* One iteration of the loop of ParseArgsRaw, lines 144-147.
ParseArgsRawStep ==
  /\ pc = "raw"
  /\ i <= Len(argv)
  /\ LET r == ParseArg(args, argv[i]) IN
       /\ args' = r.args
       /\ log' = log \o r.log
  /\ i' = i + 1
  /\ UNCHANGED <<argv, pc, ret>>

\* The loop ends and ParseArgsRaw returns, line 148.
ParseArgsRawReturns ==
  /\ pc = "raw"
  /\ i > Len(argv)
  /\ pc' = "expand"
  /\ UNCHANGED <<argv, i, args, log, ret>>

\* An iteration throws (std::bad_alloc from the copy of the token, line 145,
\* or from emplace_back, line 137); ParseArgs catches it, lines 236-239.
ParseArgsRawThrows ==
  /\ pc = "raw"
  /\ i <= Len(argv)
  /\ log' = Append(log, LogLine("error", "Error parsing arguments"))
  /\ ret' = "nullopt"
  /\ pc' = "done"
  /\ UNCHANGED <<argv, i, args>>

\* Line 242, ExpandDirectories returns.
ExpandReturns ==
  /\ pc = "expand"
  /\ \E listing \in Listings :
       LET r == ExpandDirectories(args.input_paths, listing) IN
         /\ ~r.threw
         /\ args' = [args EXCEPT !.input_paths = r.paths]
         /\ log' = log \o r.log
  /\ pc' = "filter"
  /\ UNCHANGED <<argv, i, ret>>

\* Line 242, ExpandDirectories throws: the call is outside the try block.
ExpandThrows ==
  /\ pc = "expand"
  /\ \E listing \in Listings :
       LET r == ExpandDirectories(args.input_paths, listing) IN
         /\ r.threw
         /\ log' = log \o r.log
  /\ ret' = "exception"
  /\ pc' = "done"
  /\ UNCHANGED <<argv, i, args>>

\* The failure without the test that the expanded list is non-empty.
NoSupportedImagesAlways ==
  /\ pc = "filter"
  /\ KeepSupported(args.input_paths) = <<>>
  /\ log' = Append(log, LogLine("error", "No supported images provided!"))
  /\ ret' = "nullopt"
  /\ pc' = "done"
  /\ UNCHANGED <<argv, i, args>>

\* Lines 244-248: nothing supported among the expanded paths.
NoSupportedImages ==
  /\ pc = "filter"
  /\ KeepSupported(args.input_paths) = <<>>
  /\ args.input_paths # <<>>
  /\ log' = Append(log, LogLine("error", "No supported images provided!"))
  /\ ret' = "nullopt"
  /\ pc' = "done"
  /\ UNCHANGED <<argv, i, args>>

\* Lines 244-250: the supported paths are kept and sorted.
KeepAndSort ==
  /\ pc = "filter"
  /\ ~(KeepSupported(args.input_paths) = <<>> /\ args.input_paths # <<>>)
  /\ args' = [args EXCEPT !.input_paths = SortPaths(KeepSupported(args.input_paths))]
  /\ pc' = "validate"
  /\ UNCHANGED <<argv, i, log, ret>>

\* Lines 252-254: a rule of ValidateArgs fails.
ValidateFails ==
  /\ pc = "validate"
  /\ ValidateArgs(args) # ""
  /\ log' = Append(log, LogLine("error", ValidateArgs(args)))
  /\ ret' = "nullopt"
  /\ pc' = "done"
  /\ UNCHANGED <<argv, i, args>>

\* Lines 252-256: no rule fails, the record is returned.
ValidatePasses ==
  /\ pc = "validate"
  /\ ValidateArgs(args) = ""
  /\ ret' = "record"
  /\ pc' = "done"
  /\ UNCHANGED <<argv, i, args, log>>

Next ==
  \/ ParseArgsRawStep
  \/ ParseArgsRawReturns
  \/ ParseArgsRawThrows
  \/ ExpandReturns
  \/ ExpandThrows
  \/ NoSupportedImages
  \/ KeepAndSort
  \/ ValidateFails
  \/ ValidatePasses

\* The sequences of at most n elements of S.
SeqsUpTo(S, n) == UNION {[1..k -> S] : k \in 0..n}

(***************************************************************************)
(* Spec: invocations over flags, files and directories.                    *)
(***************************************************************************)
FileA == <<"a", ".", "j", "p", "g">>
FileB == <<"b", ".", "p", "n", "g">>
FileNotes == <<"n", ".", "t", "x", "t">>
OutJpg == kOutputFlag \o <<"o", ".", "j", "p", "g">>
OutXyz == kOutputFlag \o <<"o", ".", "x", "y", "z">>

Pool ==
  {kGuiFlag, kHelpFlag, OutJpg, OutXyz, FileA, FileB, FileNotes,
   PathPhotos, PathEmpty, PathLocked}

Init == \E tokens \in SeqsUpTo(Pool, MaxArgs) : Start(tokens)

Spec == Init /\ [][Next]_vars

(***************************************************************************)
(* What an invocation asks for, read off its tokens and the file system.   *)
(***************************************************************************)
\* The token is no flag: ParseArg appends it to input_paths.
IsPositional(tok) == ParseArg(Args, tok).args.input_paths = <<tok>>

Positionals(tokens) == SelectSeq(tokens, IsPositional)

\* The regular files directly inside a directory.
FilesIn(dir) == {PathJoin(dir, e.name) : e \in {x \in DirEntries(dir) : x.kind = "file"}}

\* The paths a positional token stands for once directories are expanded.
Resolved(tok) == IF IsDirectory(tok) THEN FilesIn(tok) ELSE {tok}

\* How many times path p is among the expanded positional tokens.
RECURSIVE Occurrences(_, _)
Occurrences(p, toks) ==
  IF toks = <<>> THEN 0
  ELSE (IF p \in Resolved(Head(toks)) THEN 1 ELSE 0) + Occurrences(p, Tail(toks))

\* How many times p is in the sequence.
RECURSIVE Count(_, _)
Count(p, seq) ==
  IF seq = <<>> THEN 0
  ELSE (IF Head(seq) = p THEN 1 ELSE 0) + Count(p, Tail(seq))

Range(seq) == {seq[k] : k \in 1..Len(seq)}

\* Every path the expanded positional tokens hold.
ResolvedAll(tokens) == UNION {Resolved(t) : t \in Range(Positionals(tokens))}

Errors == SelectSeq(log, LAMBDA l : l.level = "error")

\* ParseArgsRaw ran to its end.
RawCompleted == pc # "raw" /\ i > Len(argv)

\* ExpandDirectories ran to its end.
Expanded == RawCompleted /\ pc # "expand" /\ ret # "exception"

(***************************************************************************)
(* C1. A returned record with an output path has at least one input path,  *)
(* does not run the GUI, and its output path has a supported extension.    *)
(***************************************************************************)
\* C1: a returned record with output_path present has input_paths
\* non-empty, run_gui false and a supported output extension.
C1_OutputImpliesInputsNoGui ==
  (ret = "record" /\ HasValue(args.output_path)) =>
    /\ args.input_paths # <<>>
    /\ ~args.run_gui
    /\ Substr(Extension(Value(args.output_path)), 1) \in kSupportedExtensions

C1_Witness ==
  /\ ret = "record"
  /\ HasValue(args.output_path)
  /\ Len(argv) = 3
  /\ Len(args.input_paths) = 2

(***************************************************************************)
(* C3. The input_paths of a returned record are sorted ascending by path   *)
(* and are, as a multiset, the expanded positional paths with a supported  *)
(* extension: none unsupported, none lost, a path given k times kept k     *)
(* times.                                                                  *)
(***************************************************************************)
SortedAscending(paths) ==
  \A j, k \in 1..Len(paths) : j < k => ~PathLess(paths[k], paths[j])

\* C3: the returned input_paths are sorted by path and are exactly the
\* supported expanded positional paths, with their multiplicities.
C3_SortedSupportedMultiset ==
  ret = "record" =>
    /\ SortedAscending(args.input_paths)
    /\ Range(args.input_paths) \subseteq ResolvedAll(argv)
    /\ \A p \in ResolvedAll(argv) :
         Count(p, args.input_paths) =
           IF Substr(Extension(p), 1) \in kSupportedExtensions
           THEN Occurrences(p, Positionals(argv)) ELSE 0

C3_Witness ==
  /\ ret = "record"
  /\ argv = <<FileB, PathPhotos, FileB>>
  /\ Len(args.input_paths) = 4
  /\ Count(FileB, args.input_paths) = 2

(***************************************************************************)
(* C4. The failure "No supported images provided!" of line 246.            *)
(***************************************************************************)
NoSupportedImagesFailure ==
  /\ pc = "done"
  /\ ret = "nullopt"
  /\ log # <<>>
  /\ log[Len(log)] = LogLine("error", "No supported images provided!")

\* The expanded positional paths with a supported extension.
ResolvedSupported(tokens) ==
  {p \in ResolvedAll(tokens) : Substr(Extension(p), 1) \in kSupportedExtensions}

\* C4 as claimed: once expansion has run, ParseArgs fails with the
\* failure exactly when a positional token was given and the positional
\* tokens resolve to no supported file.
C4_AsClaimed ==
  (pc = "done" /\ Expanded) =>
    (NoSupportedImagesFailure <=>
       (Positionals(argv) # <<>> /\ ResolvedSupported(argv) = {}))

\* C4 amended: once expansion has run, ParseArgs fails with the failure
\* exactly when the expanded path list is non-empty and holds no supported
\* file; it does not when the expanded list is empty, whether no
\* positional token was given or the directories given hold no regular
\* file.
C4_NoSupportedImages ==
  (pc = "done" /\ Expanded) =>
    (NoSupportedImagesFailure <=>
       (ResolvedAll(argv) # {} /\ ResolvedSupported(argv) = {}))

C4_Witness ==
  /\ NoSupportedImagesFailure
  /\ argv = <<PathEmpty, FileNotes, kHelpFlag>>
  /\ args.input_paths = <<FileNotes>>

(***************************************************************************)
(* C6. ParseArgs ends with a record or with the empty optional; it logs    *)
(* exactly one error line when it fails and none when it succeeds.         *)
(***************************************************************************)
\* C6 as claimed: ParseArgs ends with a record and no error line, or with
\* the empty optional and exactly one error line.
C6_AsClaimed ==
  pc = "done" =>
    /\ ret \in {"record", "nullopt"}
    /\ ret = "nullopt" => Len(Errors) = 1
    /\ ret = "record" => Len(Errors) = 0

(***************************************************************************)
(* C8. A filesystem error raised while a directory is enumerated ends      *)
(* ParseArgs with the empty optional and a logged error, it does not       *)
(* leave ParseArgs as an exception.                                        *)
(***************************************************************************)
\* C8 as claimed: with an unreadable directory among the positional
\* tokens, ParseArgs returns the empty optional and logs one error.
C8_AsClaimed ==
  (pc = "done" /\ RawCompleted /\ Range(Positionals(argv)) \cap Unreadable # {}) =>
    /\ ret = "nullopt"
    /\ Len(Errors) = 1

(***************************************************************************)
(* C9. ExpandDirectories replaces each directory, in place, by exactly     *)
(* its immediate regular files and passes every other entry through at     *)
(* its position; photos/ with a.jpg, b.png, notes.txt and raw/ ends,       *)
(* after the filter, as a.jpg and b.png.                                   *)
(***************************************************************************)
\* The number of paths entry k of paths expands to.
SegmentLen(path) == IF IsDirectory(path) THEN Cardinality(FilesIn(path)) ELSE 1

RECURSIVE SegmentsLen(_)
SegmentsLen(paths) ==
  IF paths = <<>> THEN 0 ELSE SegmentLen(Head(paths)) + SegmentsLen(Tail(paths))

\* The part of out that entry k of in expands to.
Segment(in, out, k) ==
  SubSeq(out, SegmentsLen(SubSeq(in, 1, k - 1)) + 1, SegmentsLen(SubSeq(in, 1, k)))

ExpandedInPlace(in, out) ==
  /\ Len(out) = SegmentsLen(in)
  /\ \A k \in 1..Len(in) :
       IF IsDirectory(in[k])
       THEN Range(Segment(in, out, k)) = FilesIn(in[k])
       ELSE Segment(in, out, k) = <<in[k]>>

\* C9: every return of ExpandDirectories has expanded each directory in
\* place to its immediate regular files and kept the other entries, and
\* the invocation on photos/ alone returns photos/a.jpg, photos/b.png.
C9_ExpandInPlace ==
  [][/\ (pc = "expand" /\ pc' = "filter") =>
          ExpandedInPlace(args.input_paths, args'.input_paths)
     /\ (pc = "validate" /\ argv = <<PathPhotos>>) =>
          /\ ret' = "record"
          /\ args'.input_paths =
               <<PathJoin(PathPhotos, FileA), PathJoin(PathPhotos, FileB)>>]_vars

C9_Witness ==
  /\ pc = "filter"
  /\ argv = <<FileB, PathPhotos, FileA>>
  /\ Len(args.input_paths) = 5

(***************************************************************************)
(* SpecNum: invocations over the numeric flags, with values at and one     *)
(* past each bound.                                                        *)
(***************************************************************************)
IntValues ==
  {<<"-", "1">>, <<"0">>, <<"1">>, <<"3">>, <<"4">>, <<"9">>, <<"1", "0">>,
   <<"1", "0", "0">>, <<"1", "0", "1">>, <<"2", "5", "0">>, <<"2", "5", "1">>,
   <<"5", "0", "0", "0">>, <<"5", "0", "0", "1">>}

FloatValues ==
  {<<"-", "0", ".", "1">>, <<"0">>, <<"0", ".", "5">>, <<"1", ".", "0">>,
   <<"1", ".", "1">>, <<"n", "a", "n">>, <<"i", "n", "f">>}

NumTokens ==
  {flag \o v : flag \in {kMatchThresholdFlag, kJpegQualityFlag, kPngCompressionFlag, kMaxPanoMpxFlag},
               v \in IntValues}
  \cup {kMinShiftFlag \o v : v \in FloatValues}

NumPool == NumTokens \cup {FileA, FileNotes, PathLocked, OutXyz}

InitNum == \E tokens \in SeqsUpTo(NumPool, MaxNumArgs) : Start(tokens)

SpecNum == InitNum /\ [][Next]_vars

(***************************************************************************)
(* C2. Every present numeric field of a returned record lies within its    *)
(* bound; a value equal to a bound is accepted, a value one past it makes  *)
(* ParseArgs fail.                                                         *)
(***************************************************************************)
\* a <= b on floats: false when either is NaN.
FloatLeq(a, b) == a.cls # "nan" /\ b.cls # "nan" /\ ~FloatLess(b, a)

IntWithin(o, lo, hi) == HasValue(o) => (lo <= Value(o) /\ Value(o) <= hi)

FloatWithin(o, lo, hi) == HasValue(o) => (FloatLeq(lo, Value(o)) /\ FloatLeq(Value(o), hi))

NumericFieldsWithinBounds(a) ==
  /\ IntWithin(a.match_threshold, kMinMatchThreshold, kMaxMatchThreshold)
  /\ FloatWithin(a.min_shift, kMinShiftInPano, kMaxShiftInPano)
  /\ IntWithin(a.jpeg_quality, 0, kMaxJpegQuality)
  /\ IntWithin(a.png_compression, 0, kMaxPngCompression)
  /\ IntWithin(a.max_pano_mpx, 1, 5000)

\* The tokens whose value is a bound, and those whose value is one past it.
AtBound ==
  {kMatchThresholdFlag \o <<"4">>, kMatchThresholdFlag \o <<"2", "5", "0">>,
   kMinShiftFlag \o <<"0">>, kMinShiftFlag \o <<"1", ".", "0">>,
   kJpegQualityFlag \o <<"0">>, kJpegQualityFlag \o <<"1", "0", "0">>,
   kPngCompressionFlag \o <<"0">>, kPngCompressionFlag \o <<"9">>,
   kMaxPanoMpxFlag \o <<"1">>, kMaxPanoMpxFlag \o <<"5", "0", "0", "0">>}

PastBound ==
  {kMatchThresholdFlag \o <<"3">>, kMatchThresholdFlag \o <<"2", "5", "1">>,
   kMinShiftFlag \o <<"-", "0", ".", "1">>, kMinShiftFlag \o <<"1", ".", "1">>,
   kJpegQualityFlag \o <<"-", "1">>, kJpegQualityFlag \o <<"1", "0", "1">>,
   kPngCompressionFlag \o <<"-", "1">>, kPngCompressionFlag \o <<"1", "0">>,
   kMaxPanoMpxFlag \o <<"0">>, kMaxPanoMpxFlag \o <<"5", "0", "0", "1">>}

\* C2 as claimed: numeric fields of a returned record are within their
\* bounds, a value at a bound is accepted, a value one past it fails.
C2_AsClaimed ==
  /\ ret = "record" => NumericFieldsWithinBounds(args)
  /\ (pc = "done" /\ RawCompleted /\ Len(argv) = 1 /\ argv[1] \in AtBound) => ret = "record"
  /\ (pc = "done" /\ RawCompleted /\ Len(argv) = 1 /\ argv[1] \in PastBound) => ret = "nullopt"

(***************************************************************************)
(* SpecValidate: ValidateArgs applied to the records ParseArgs can         *)
(* assemble.                                                               *)
(***************************************************************************)
OptionalOf(S) == {None} \cup {Some(v) : v \in S}

ValidateInputs ==
  {[Args EXCEPT !.input_paths = ip, !.output_path = op, !.run_gui = g,
                !.match_threshold = mt, !.min_shift = ms, !.jpeg_quality = jq,
                !.png_compression = pn, !.max_pano_mpx = mp] :
     ip \in {<<>>, <<FileA>>},
     op \in OptionalOf({<<"o", ".", "j", "p", "g">>, <<"o", ".", "x", "y", "z">>}),
     g \in BOOLEAN,
     mt \in OptionalOf({0, 3, 4, 250, 251}),
     ms \in OptionalOf({Fin(-1, 10), Fin(0, 1), Fin(10, 10), Fin(11, 10), NaN}),
     jq \in OptionalOf({-1, 0, 100, 101}),
     pn \in OptionalOf({-1, 9, 10}),
     mp \in OptionalOf({0, 1, 5000, 5001})}

InitValidate ==
  /\ argv = <<>>
  /\ i = 1
  /\ args \in ValidateInputs
  /\ pc = "validate"
  /\ log = <<>>
  /\ ret = "pending"

NextValidate == ValidateFails \/ ValidatePasses

SpecValidate == InitValidate /\ [][NextValidate]_vars

(***************************************************************************)
(* C5. ValidateArgs logs the diagnostic of the lowest-numbered rule the    *)
(* record violates, only that one, and fails; it logs nothing and          *)
(* succeeds for a record that violates none.                               *)
(***************************************************************************)
\* Rule k of the nine, as the rule table states it.
Violates(k, a) ==
  CASE k = 1 -> HasValue(a.output_path) /\ a.input_paths = <<>>
    [] k = 2 -> HasValue(a.output_path)
                  /\ Substr(Extension(Value(a.output_path)), 1) \notin kSupportedExtensions
    [] k = 3 -> HasValue(a.output_path) /\ a.run_gui
    [] k = 4 -> a.match_threshold = Some(0)
    [] k = 5 -> ~IntWithin(a.match_threshold, kMinMatchThreshold, kMaxMatchThreshold)
    [] k = 6 -> ~FloatWithin(a.min_shift, kMinShiftInPano, kMaxShiftInPano)
    [] k = 7 -> ~IntWithin(a.jpeg_quality, 0, kMaxJpegQuality)
    [] k = 8 -> ~IntWithin(a.png_compression, 0, kMaxPngCompression)
    [] k = 9 -> ~IntWithin(a.max_pano_mpx, 1, 5000)

Diagnostic ==
  <<"No supported images provided",
    "Unsupported output file extension",
    "Specifying --gui and --output together is not yet supported.",
    "Invalid value for --match-threshold",
    "--match-threshold must be between",
    "--min-shift must be between",
    "--jpeg-quality must be between",
    "--png-compression must be between",
    "--max-pano-mpx must be between 1 and 5000">>

\* C5 as claimed: the validator fails with the one diagnostic of the
\* lowest-numbered violated rule, and passes silently when none is.
C5_AsClaimed ==
  pc = "done" =>
    LET violated == {k \in 1..9 : Violates(k, args)} IN
    IF violated = {}
    THEN ret = "record" /\ log = <<>>
    ELSE LET first == CHOOSE k \in violated : \A j \in violated : k <= j IN
         ret = "nullopt" /\ log = <<LogLine("error", Diagnostic[first])>>

(***************************************************************************)
(* SpecFlags: invocations over the value flags, each with a value its      *)
(* parser takes and one it does not.                                       *)
(***************************************************************************)
Bogus == <<"b", "o", "g", "u", "s">>
NotANumber == <<"1", "x">>

\* The flags with a value: the field each sets, a good and a bad value.
ValueFlags ==
  {[flag |-> kProjectionFlag, field |-> "projection", good |-> <<"p", "a", "n", "i", "n", "i">>, bad |-> Bogus],
   [flag |-> kMatchingTypeFlag, field |-> "matching_type", good |-> <<"s", "i", "n", "g", "l", "e">>, bad |-> Bogus],
   [flag |-> kMatchThresholdFlag, field |-> "match_threshold", good |-> <<"7", "0">>, bad |-> NotANumber],
   [flag |-> kMinShiftFlag, field |-> "min_shift", good |-> <<"0", ".", "5">>, bad |-> NotANumber],
   [flag |-> kJpegQualityFlag, field |-> "jpeg_quality", good |-> <<"9", "0">>, bad |-> NotANumber],
   [flag |-> kPngCompressionFlag, field |-> "png_compression", good |-> <<"6">>, bad |-> NotANumber],
   [flag |-> kWaveCorrectionFlag, field |-> "wave_correction", good |-> <<"o", "f", "f">>, bad |-> Bogus],
   [flag |-> kMaxPanoMpxFlag, field |-> "max_pano_mpx", good |-> <<"5", "0">>, bad |-> NotANumber]}

GoodTokens == {f.flag \o f.good : f \in ValueFlags}
BadTokens == {f.flag \o f.bad : f \in ValueFlags}
MatchingBogus == kMatchingTypeFlag \o Bogus

FlagPool == GoodTokens \cup BadTokens \cup {FileA, FileNotes, PathLocked, OutJpg}

InitFlags == \E tokens \in SeqsUpTo(FlagPool, MaxFlagArgs) : Start(tokens)

SpecFlags == InitFlags /\ [][Next]_vars

(***************************************************************************)
(* C7. A value flag whose value does not parse leaves its field unset      *)
(* once processed, changes no other field and does not stop the loop:      *)
(* the tokens after it are dispatched, and the parse succeeds when no      *)
(* rule of the validator fails (--matching-type=bogus alone: field unset,  *)
(* a warning, success).                                                    *)
(***************************************************************************)
\* The field a bad token is for.
BadField(tok) == (CHOOSE f \in ValueFlags : tok = f.flag \o f.bad).field

Warnings == SelectSeq(log, LAMBDA l : l.level = "warn")

\* C7: the step on a bad-valued flag unsets its field, keeps the others
\* and continues the loop; every positional token is dispatched; an
\* invocation of bad-valued flags only returns the default record, with
\* one warning per bad --matching-type and no error.
C7_BadValueIsLocal ==
  [][/\ (pc = "raw" /\ i <= Len(argv) /\ argv[i] \in BadTokens /\ ret' = "pending") =>
          /\ args'[BadField(argv[i])] = None
          /\ \A f \in DOMAIN args : f # BadField(argv[i]) => args'[f] = args[f]
          /\ i' = i + 1
          /\ pc' = "raw"
     /\ (pc = "raw" /\ pc' = "expand") => args'.input_paths = Positionals(argv)
     /\ (pc = "validate" /\ Range(argv) \subseteq BadTokens) =>
          /\ ret' = "record"
          /\ args' = Args
          /\ Len(Errors') = 0
          /\ Len(Warnings') = Count(MatchingBogus, argv)]_vars

C7_Witness ==
  /\ pc = "done"
  /\ ret = "record"
  /\ argv = <<kJpegQualityFlag \o <<"9", "0">>, kJpegQualityFlag \o NotANumber>>
  /\ args.jpeg_quality = None

(***************************************************************************)
(* ParseArgs as a function of the tokens and of the enumeration orders:    *)
(* how it ends, the record it returns (the default record when it          *)
(* returns none) and the error it logs ("" when none).                     *)
(***************************************************************************)
RECURSIVE ParseArgsRaw(_, _)
ParseArgsRaw(result, tokens) ==
  IF tokens = <<>> THEN result
  ELSE ParseArgsRaw(ParseArg(result, Head(tokens)).args, Tail(tokens))

Outcome(r, a, e) == [ret |-> r, args |-> a, error |-> e]

ParseArgs(tokens, listing) ==
  LET raw == ParseArgsRaw(Args, tokens)
      exp == ExpandDirectories(raw.input_paths, listing)
      supported == KeepSupported(exp.paths)
      final == [raw EXCEPT !.input_paths = SortPaths(supported)]
  IN IF exp.threw THEN Outcome("exception", Args, "")
     ELSE IF supported = <<>> /\ exp.paths # <<>>
       THEN Outcome("nullopt", Args, "No supported images provided!")
     ELSE IF ValidateArgs(final) # "" THEN Outcome("nullopt", Args, ValidateArgs(final))
     ELSE Outcome("record", final, "")

(***************************************************************************)
(* C10. When no two tokens target the same field, every permutation of     *)
(* the tokens ends ParseArgs the same way: the same failure, or a record   *)
(* equal in every field.  When tokens target the same field, the last of   *)
(* them alone determines it.                                               *)
(***************************************************************************)
\* The field a token targets; "input_paths" for a positional token.
TargetField(tok) ==
  IF tok = kGuiFlag THEN "run_gui"
  ELSE IF tok = kHelpFlag THEN "print_help"
  ELSE IF tok = kVersionFlag THEN "print_version"
  ELSE IF tok \in {kCopyMetadataFlag, kNoCopyMetadataFlag} THEN "copy_metadata"
  ELSE IF StartsWith(tok, kOutputFlag) THEN "output_path"
  ELSE IF \E f \in ValueFlags : StartsWith(tok, f.flag)
    THEN (CHOOSE f \in ValueFlags : StartsWith(tok, f.flag)).field
  ELSE "input_paths"

FlagFields == DOMAIN Args \ {"input_paths"}

\* Each flag field is set by at most one token.
NoFieldTwice(tokens) ==
  \A j, k \in 1..Len(tokens) :
    (j # k /\ TargetField(tokens[j]) = TargetField(tokens[k])) =>
      TargetField(tokens[j]) = "input_paths"

Reorderings(tokens) ==
  {[k \in 1..Len(tokens) |-> tokens[f[k]]] :
     f \in {g \in [1..Len(tokens) -> 1..Len(tokens)] :
              \A j, k \in 1..Len(tokens) : g[j] = g[k] => j = k}}

\* The last token of tokens that targets field f.
LastFor(f, tokens) ==
  tokens[CHOOSE k \in 1..Len(tokens) :
           /\ TargetField(tokens[k]) = f
           /\ \A j \in (k + 1)..Len(tokens) : TargetField(tokens[j]) # f]

AnyListing == CHOOSE l \in Listings : TRUE

\* C10: with no flag field targeted twice, every reordering of the tokens
\* gives the outcome of this run; after the raw parse each targeted flag
\* field holds what its last token alone would set.
C10_OrderIndependent ==
  /\ (pc = "done" /\ RawCompleted /\ NoFieldTwice(argv)) =>
       \A perm \in Reorderings(argv) :
         ParseArgs(perm, AnyListing) =
           Outcome(ret, IF ret = "record" THEN args ELSE Args,
                   IF Errors = <<>> THEN "" ELSE Errors[1].msg)
  /\ pc = "expand" =>
       \A f \in FlagFields :
         (\E k \in 1..Len(argv) : TargetField(argv[k]) = f) =>
           args[f] = ParseArg(Args, LastFor(f, argv)).args[f]

C10_Witness ==
  /\ pc = "done"
  /\ ret = "record"
  /\ argv = <<PathPhotos, OutJpg, FileA>>
  /\ Len(args.input_paths) = 3

====
